---- MODULE Spec2Model ----
(***************************************************************************)
(* A model of the lexer of src/src/lexer.rs: the Lexer struct (input, the  *)
(* peekable character iterator, pos), Lexer::lex as a small-step machine   *)
(* (one step per loop iteration, so that a loop that does not exit shows   *)
(* as such) and Iterator::next, which wraps lex.                           *)
(*                                                                         *)
(* A character is a one-character string; the three names NBSP, EACUTE and *)
(* EMSP stand for U+00A0, U+00E9 and U+2003.  A source text is a sequence  *)
(* of characters.                                                          *)
(***************************************************************************)
EXTENDS Integers, Sequences, FiniteSets, TLC

(* ----------------------------- bounds ---------------------------------- *)

\* Longest source text drawn from the whole alphabet.
MaxLen == 3

\* Longest comment body drawn from the whole alphabet in "#body\nvar".
MaxComment == 1

\* Longest source text of the behaviours checked for liveness.
MaxLiveLen == 2

\* usize::MAX scaled to the source text: the largest value of a position is
\* the length of the text plus Overrun, so that only a loop that keeps
\* counting after the end of the text can overflow.
Overrun == 2

(* --------------------------- characters -------------------------------- *)

Digits == {"0", "1", "2", "3", "4", "5", "6", "7", "8", "9"}

HexLetters == {"a", "b", "c", "d", "e", "f", "A", "B", "C", "D", "E", "F"}

LowerLetters ==
    {"a", "b", "c", "d", "e", "f", "g", "h", "i", "j", "k", "l", "m",
     "n", "o", "p", "q", "r", "s", "t", "u", "v", "w", "x", "y", "z"}

UpperLetters ==
    {"A", "B", "C", "D", "E", "F", "G", "H", "I", "J", "K", "L", "M",
     "N", "O", "P", "Q", "R", "S", "T", "U", "V", "W", "X", "Y", "Z"}

\* char::is_whitespace: the Unicode White_Space property.
IsWhitespace(c) == c \in {" ", "\n", "\t", "\r", "NBSP", "EMSP"}

\* char::is_ascii_hexdigit
IsAsciiHexdigit(c) == c \in Digits \cup HexLetters

\* Mutant of IsAlphanumeric: is_alphabetic, so a digit ends an identifier.
IsAlphabeticOnly(c) ==
    c \in LowerLetters \cup UpperLetters \cup {"EACUTE"}

\* char::is_alphanumeric: Unicode Alphabetic or Numeric.
IsAlphanumeric(c) ==
    c \in Digits \cup LowerLetters \cup UpperLetters \cup {"EACUTE"}

\* The pattern '.' | '0'..='9' of the number arm.
IsNumberStart(c) == c = "." \/ c \in Digits

\* The pattern 'a'..='z' | 'A'..='Z' | '_' of the identifier arm.
IsIdentStart(c) == c \in LowerLetters \cup UpperLetters \cup {"_"}

\* Bytes of the character's UTF-8 encoding (input is a &str).
Utf8Len(c) ==
    CASE c \in {"NBSP", "EACUTE"} -> 2
      [] c = "EMSP" -> 3
      [] OTHER -> 1

(* ----------------------- byte offsets and slices ----------------------- *)

RECURSIVE ByteOffset(_, _)
\* Byte offset of the end of the first i characters of s.
ByteOffset(s, i) ==
    IF i = 0 THEN 0 ELSE ByteOffset(s, i - 1) + Utf8Len(s[i])

\* str::len
ByteLen(s) == ByteOffset(s, Len(s))

\* str::is_char_boundary
IsCharBoundary(s, b) == \E i \in 0..Len(s) : ByteOffset(s, i) = b

CharIndex(s, b) == CHOOSE i \in 0..Len(s) : ByteOffset(s, i) = b

\* src[a..b]: a range of BYTES; it panics unless a <= b and both ends lie on
\* character boundaries of src.
Slice(s, a, b) ==
    IF a <= b /\ IsCharBoundary(s, a) /\ IsCharBoundary(s, b)
    THEN [ok |-> TRUE, text |-> SubSeq(s, CharIndex(s, a) + 1, CharIndex(s, b))]
    ELSE [ok |-> FALSE, text |-> << >>]

(* --------------------- f64::from_str (str::parse) ---------------------- *)

DigitVal(c) ==
    CASE c = "0" -> 0 [] c = "1" -> 1 [] c = "2" -> 2 [] c = "3" -> 3
      [] c = "4" -> 4 [] c = "5" -> 5 [] c = "6" -> 6 [] c = "7" -> 7
      [] c = "8" -> 8 [] c = "9" -> 9

AllDigits(s) == \A i \in 1..Len(s) : s[i] \in Digits

RECURSIVE DigitsValue(_)
DigitsValue(s) ==
    IF s = << >> THEN 0
    ELSE DigitsValue(SubSeq(s, 1, Len(s) - 1)) * 10 + DigitVal(s[Len(s)])

\* Index of the first character of s that is in set, or 0.
FirstIn(s, set) ==
    IF \E i \in 1..Len(s) : s[i] \in set
    THEN CHOOSE i \in 1..Len(s) :
             s[i] \in set /\ \A j \in 1..(i - 1) : s[j] \notin set
    ELSE 0

Tail2(s, i) == SubSeq(s, i + 1, Len(s))

HasSign(s) == s # << >> /\ s[1] \in {"+", "-"}

StripSign(s) == IF HasSign(s) THEN Tail(s) ELSE s

\* ASCII lower-casing, as the case-insensitive match of inf / nan needs.
Lower(c) ==
    CASE c = "I" -> "i" [] c = "N" -> "n" [] c = "F" -> "f" [] c = "A" -> "a"
      [] c = "T" -> "t" [] c = "Y" -> "y" [] OTHER -> c

LowerAll(s) == [i \in 1..Len(s) |-> Lower(s[i])]

\* A float value.  A finite value is mant * 10^exp with mant free of
\* trailing zeros (zero is mant 0, exp 0), so that two spans denote the same
\* record exactly when they parse to the same f64; this is exact for spans
\* of at most 15 significant digits and a decimal exponent within +-300,
\* which every span of the bounded source texts is.
NoNum == [cls |-> "none", neg |-> FALSE, mant |-> 0, exp |-> 0]

RECURSIVE Normalize(_, _)
Normalize(m, e) ==
    IF m = 0 THEN [mant |-> 0, exp |-> 0]
    ELSE IF m % 10 = 0 THEN Normalize(m \div 10, e + 1)
    ELSE [mant |-> m, exp |-> e]

Finite(neg, m, e) ==
    [cls |-> "finite", neg |-> neg,
     mant |-> Normalize(m, e).mant, exp |-> Normalize(m, e).exp]

ParseFail == [ok |-> FALSE, num |-> NoNum]

\* The grammar of <f64 as FromStr>:
\*   Float  ::= Sign? ( 'inf' | 'infinity' | 'nan' | Number )
\*   Number ::= ( Digit+ | Digit+ '.' Digit* | Digit* '.' Digit+ ) Exp?
\*   Exp    ::= 'e' Sign? Digit+          (letters case-insensitive)
ParseF64(span) ==
    LET neg  == HasSign(span) /\ span[1] = "-"
        body == StripSign(span)
        ePos == FirstIn(body, {"e", "E"})
        mantS == IF ePos = 0 THEN body ELSE SubSeq(body, 1, ePos - 1)
        expS == IF ePos = 0 THEN << >> ELSE Tail2(body, ePos)
        expNeg == HasSign(expS) /\ expS[1] = "-"
        expD == StripSign(expS)
        dot  == FirstIn(mantS, {"."})
        intS == IF dot = 0 THEN mantS ELSE SubSeq(mantS, 1, dot - 1)
        fracS == IF dot = 0 THEN << >> ELSE Tail2(mantS, dot)
        expOk == ePos = 0 \/ (expD # << >> /\ AllDigits(expD))
        mantOk == /\ AllDigits(intS) /\ AllDigits(fracS)
                  /\ Len(intS) + Len(fracS) > 0
        expV == IF ePos = 0 THEN 0
                ELSE IF expNeg THEN 0 - DigitsValue(expD) ELSE DigitsValue(expD)
    IN  IF LowerAll(body) \in {<<"i", "n", "f">>,
                               <<"i", "n", "f", "i", "n", "i", "t", "y">>}
        THEN [ok |-> TRUE, num |-> [cls |-> "inf", neg |-> neg, mant |-> 0, exp |-> 0]]
        ELSE IF LowerAll(body) = <<"n", "a", "n">>
        THEN [ok |-> TRUE, num |-> [cls |-> "nan", neg |-> neg, mant |-> 0, exp |-> 0]]
        ELSE IF mantOk /\ expOk
        THEN [ok |-> TRUE,
              num |-> Finite(neg, DigitsValue(intS \o fracS), expV - Len(fracS))]
        ELSE ParseFail

(* ------------------------------ tokens --------------------------------- *)

\* A TokenKind value: kind is the variant, kw the Keyword of a Keyword, text
\* the String of an Ident or the char of an Op, num the f64 of a Number.
Tok(kind, kw, text, num) ==
    [kind |-> kind, kw |-> kw, text |-> text, num |-> num]

Plain(kind) == Tok(kind, "", << >>, NoNum)

Eof == Plain("Eof")

LineComment == Plain("LineComment")

KeywordTok(k) == Tok("Keyword", k, << >>, NoNum)

Ident(text) == Tok("Ident", "", text, NoNum)

Op(c) == Tok("Op", "", <<c>>, NoNum)

Number(v) == Tok("Number", "", << >>, v)

\* The single-character arms of the match of Lexer::lex.
IsPunct(c) == c \in {";", ",", "(", ")", "{", "}", "[", "]"}

Punct(c) ==
    CASE c = ";" -> Plain("Semi")
      [] c = "," -> Plain("Comma")
      [] c = "(" -> Plain("OpenParen")
      [] c = ")" -> Plain("CloseParen")
      [] c = "{" -> Plain("OpenBrace")
      [] c = "}" -> Plain("CloseBrace")
      [] c = "[" -> Plain("OpenBracket")
      [] c = "]" -> Plain("CloseBracket")

\* The match on &src[start..pos] of the identifier arm.
Word(text) ==
    CASE text = <<"c", "o", "n", "s", "t">> -> KeywordTok("Const")
      [] text = <<"e", "l", "s", "e">> -> KeywordTok("Else")
      [] text = <<"f", "o", "r">> -> KeywordTok("For")
      [] text = <<"f", "u", "n", "c", "t", "i", "o", "n">> -> KeywordTok("Function")
      [] text = <<"i", "f">> -> KeywordTok("If")
      [] text = <<"i", "m", "p", "o", "r", "t">> -> KeywordTok("Import")
      [] text = <<"r", "e", "t", "u", "r", "n">> -> KeywordTok("Return")
      [] text = <<"v", "a", "r">> -> KeywordTok("Var")
      [] OTHER -> Ident(text)

(* ------------------------------ state ---------------------------------- *)

VARIABLES
    input,     \* Lexer.input: the source text
    taken,     \* Lexer.chars: how many characters the iterator has given out
    pos,       \* Lexer.pos: the stored cursor
    lpos,      \* lex: the local `pos`
    start,     \* lex: the local `start`
    pc,        \* where the current call of next() stands
    result,    \* what the last call of lex() returned
    nextRet,   \* what the last call of next() returned: "None" or "Some"
    yielded,   \* the tokens next() has returned in Some, in order
    callFrom,  \* history: the value of taken when the current call began
    tokFrom,   \* history: the value of taken when lex took its `next`
    arm        \* history: the arm of the match the current call entered

vars ==
    <<input, taken, pos, lpos, start, pc, result, nextRet, yielded,
      callFrom, tokFrom, arm>>

(* ------------------------------ inputs --------------------------------- *)

Alphabet ==
    {" ", "\n", "#", ";", "+", ".", "1", "e", "x", "_", "NBSP", "EACUTE"}

Strings(set, n) == UNION {[1..k -> set] : k \in 0..n}

Keywords ==
    {<<"c", "o", "n", "s", "t">>, <<"e", "l", "s", "e">>, <<"f", "o", "r">>,
     <<"f", "u", "n", "c", "t", "i", "o", "n">>, <<"i", "f">>,
     <<"i", "m", "p", "o", "r", "t">>, <<"r", "e", "t", "u", "r", "n">>,
     <<"v", "a", "r">>}

NearKeywords ==
    {<<"f", "o", "r", "e", "v", "e", "r">>, <<"F", "o", "r">>, <<"f", "o">>,
     <<"v", "a", "r", "1">>, <<"I", "F">>, <<"o", "n", "s", "t", "x">>}

\* A word, alone or between a prefix and a suffix.
WordInputs ==
    {p \o w \o s :
        p \in {<< >>, <<" ">>, <<"EACUTE", "+", "1">>},
        w \in Keywords \cup NearKeywords,
        s \in {<< >>, <<";">>, <<"x", ";">>, <<" ", "1", " ">>}}

\* A line comment, its newline, the word var, and an end.
CommentInputs ==
    {<<"#">> \o c \o <<"\n", "v", "a", "r">> \o s :
        c \in Strings(Alphabet \ {"\n"}, MaxComment),
        s \in {<< >>, <<";">>}}

\* The number spans the specification names and some more, at the start of
\* the text and behind a two-byte character, at the end of the text and
\* before a further token.
NumberInputs ==
    {p \o n \o s :
        p \in {<< >>, <<"EACUTE", "+">>},
        n \in {<<"1", ".", "2", ".", "3">>, <<"1", "f">>, <<".">>,
               <<"1", ".", "0">>, <<"1", "e", "1">>, <<"1", "1">>,
               <<"1", "e">>},
        s \in {<< >>, <<";">>, <<" ">>}}

\* "var1 = 1;" and "function add(a, b) { return a + b; }"
Examples ==
    {<<"v", "a", "r", "1", " ", "=", " ", "1", ";">>,
     <<"f", "u", "n", "c", "t", "i", "o", "n", " ", "a", "d", "d", "(", "a",
       ",", " ", "b", ")", " ", "{", " ", "r", "e", "t", "u", "r", "n", " ",
       "a", " ", "+", " ", "b", ";", " ", "}">>}

Inputs ==
    Strings(Alphabet, MaxLen) \cup WordInputs \cup CommentInputs
        \cup NumberInputs \cup Examples

(* ------------------------- Lexer::new, Init ---------------------------- *)

Ok(tok) == [ok |-> TRUE, tok |-> tok]

\* No call of lex() has returned yet.
NoResult == Ok(Plain("NotYet"))

Init ==
    /\ input \in Inputs
    /\ taken = 0
    /\ pos = 0
    /\ lpos = 0
    /\ start = 0
    /\ pc = "idle"
    /\ result = NoResult
    /\ nextRet = "NotYet"
    /\ yielded = << >>
    /\ callFrom = 0
    /\ tokFrom = 0
    /\ arm = "none"

(* -------------------------- Iterator::next ----------------------------- *)

\* Mutant of IsNone: only an error ends the sequence, Eof is passed on.
IsNoneErrOnly(res) == ~res.ok

\* match self.lex() { Ok(Eof) | Err(_) => None, Ok(token) => Some(token) }
IsNone(res) == ~res.ok \/ res.tok = Eof

\* lex() returns res, having stored newPos in self.pos (or left it, when
\* newPos is pos); next() maps the result and returns.
Return(res, newPos) ==
    /\ result' = res
    /\ pos' = newPos
    /\ pc' = "idle"
    /\ nextRet' = IF IsNone(res) THEN "None" ELSE "Some"
    /\ yielded' = IF IsNone(res) THEN yielded ELSE Append(yielded, res.tok)

\* unwrap() of a failed parse, or a slice off a character boundary: the
\* thread panics and the call does not return.
Panic ==
    /\ pc' = "panicked"
    /\ UNCHANGED <<result, pos, nextRet, yielded>>

(* ----------------------------- Lexer::lex ------------------------------ *)

AtEnd == taken = Len(input)

\* chars.peek(), when not at the end.
Peek == input[taken + 1]

\* usize::MAX, scaled (see Overrun).
UsizeMax == Len(input) + Overrun

\* pos += 1 on a usize: it wraps to 0 after usize::MAX.  (With overflow
\* checks compiled in, the addition panics there instead; a loop reaches
\* that point only after usize::MAX turns, which no run of the program
\* lives to see, so the model follows the loop and not the panic.)
Inc(n) == IF n = UsizeMax THEN 0 ELSE n + 1

\* next() is called: it calls lex(), which copies self.pos.
Call ==
    /\ pc = "idle"
    /\ pc' = "skip"
    /\ lpos' = pos
    /\ callFrom' = taken
    /\ arm' = "none"
    /\ UNCHANGED <<input, taken, pos, start, result, nextRet, yielded, tokFrom>>

\* Mutant of SkipWhitespace: is_ascii_whitespace in place of is_whitespace.
SkipWhitespaceAscii ==
    /\ pc = "skip"
    /\ IF AtEnd
       THEN /\ Return(Ok(Eof), lpos)
            /\ UNCHANGED <<taken, lpos>>
       ELSE IF Peek \notin {" ", "\n", "\t", "\r"}
       THEN /\ pc' = "first"
            /\ UNCHANGED <<taken, lpos, result, pos, nextRet, yielded>>
       ELSE /\ taken' = taken + 1
            /\ lpos' = Inc(lpos)
            /\ UNCHANGED <<pc, result, pos, nextRet, yielded>>
    /\ UNCHANGED <<input, start, callFrom, tokFrom, arm>>

\* One turn of the "skip whitespaces" loop.
SkipWhitespace ==
    /\ pc = "skip"
    /\ IF AtEnd
       THEN /\ Return(Ok(Eof), lpos)
            /\ UNCHANGED <<taken, lpos>>
       ELSE IF ~IsWhitespace(Peek)
       THEN /\ pc' = "first"
            /\ UNCHANGED <<taken, lpos, result, pos, nextRet, yielded>>
       ELSE /\ taken' = taken + 1
            /\ lpos' = Inc(lpos)
            /\ UNCHANGED <<pc, result, pos, nextRet, yielded>>
    /\ UNCHANGED <<input, start, callFrom, tokFrom, arm>>

\* The arm of the match that a first character selects.
Arm(c) ==
    IF IsPunct(c) THEN "punct"
    ELSE IF c = "#" THEN "comment"
    ELSE IF IsNumberStart(c) THEN "number"
    ELSE IF IsIdentStart(c) THEN "ident"
    ELSE "op"

\* Mutant of FirstChar: the operator arm looks ahead and takes a doubled
\* operator character ("==", "++") as one token.
FirstCharGreedyOp ==
    /\ pc = "first"
    /\ start' = lpos
    /\ tokFrom' = taken
    /\ IF AtEnd
       THEN /\ Return(Ok(Eof), pos)
            /\ UNCHANGED <<taken, lpos, arm>>
       ELSE LET c == Peek
                two == taken + 2 <= Len(input) /\ input[taken + 2] = c
            IN
            /\ arm' = Arm(c)
            /\ CASE Arm(c) = "punct" ->
                       /\ taken' = taken + 1
                       /\ lpos' = Inc(lpos)
                       /\ Return(Ok(Punct(c)), Inc(lpos))
                 [] Arm(c) = "op" /\ two ->
                       /\ taken' = taken + 2
                       /\ lpos' = Inc(Inc(lpos))
                       /\ Return(Ok(Op(c)), Inc(Inc(lpos)))
                 [] Arm(c) = "op" /\ ~two ->
                       /\ taken' = taken + 1
                       /\ lpos' = Inc(lpos)
                       /\ Return(Ok(Op(c)), Inc(lpos))
                 [] OTHER ->
                       /\ taken' = taken + 1
                       /\ lpos' = Inc(lpos)
                       /\ pc' = Arm(c)
                       /\ UNCHANGED <<result, pos, nextRet, yielded>>
    /\ UNCHANGED <<input, callFrom>>

\* let start = pos; let next = chars.next(); ...; the match on the
\* character, whose single-character arms return at once.
FirstChar ==
    /\ pc = "first"
    /\ start' = lpos
    /\ tokFrom' = taken
    /\ IF AtEnd
       THEN /\ Return(Ok(Eof), pos)
            /\ UNCHANGED <<taken, lpos, arm>>
       ELSE LET c == Peek IN
            /\ taken' = taken + 1
            /\ lpos' = Inc(lpos)
            /\ arm' = Arm(c)
            /\ CASE Arm(c) = "punct" -> Return(Ok(Punct(c)), Inc(lpos))
                 [] Arm(c) = "op" -> Return(Ok(Op(c)), Inc(lpos))
                 [] OTHER -> /\ pc' = Arm(c)
                             /\ UNCHANGED <<result, pos, nextRet, yielded>>
    /\ UNCHANGED <<input, callFrom>>

\* Mutant of CommentLoop: the loop is also left when chars.next() is None.
CommentLoopExitAtEnd ==
    /\ pc = "comment"
    /\ taken' = IF AtEnd THEN taken ELSE taken + 1
    /\ lpos' = Inc(lpos)
    /\ IF AtEnd \/ Peek = "\n"
       THEN Return(Ok(LineComment), Inc(lpos))
       ELSE UNCHANGED <<pc, result, pos, nextRet, yielded>>
    /\ UNCHANGED <<input, start, callFrom, tokFrom, arm>>

\* One turn of the comment loop: ch = chars.next(); pos += 1; leave on '\n'.
CommentLoop ==
    /\ pc = "comment"
    /\ taken' = IF AtEnd THEN taken ELSE taken + 1
    /\ lpos' = Inc(lpos)
    /\ IF ~AtEnd /\ Peek = "\n"
       THEN Return(Ok(LineComment), Inc(lpos))
       ELSE UNCHANGED <<pc, result, pos, nextRet, yielded>>
    /\ UNCHANGED <<input, start, callFrom, tokFrom, arm>>

\* One turn of the number loop, and on leaving it the slice and its parse.
NumberLoop ==
    /\ pc = "number"
    /\ IF AtEnd
       THEN /\ Return(Ok(Eof), pos)
            /\ UNCHANGED <<taken, lpos>>
       ELSE IF Peek # "." /\ ~IsAsciiHexdigit(Peek)
       THEN /\ LET span == Slice(input, start, lpos) IN
               IF span.ok /\ ParseF64(span.text).ok
               THEN Return(Ok(Number(ParseF64(span.text).num)), lpos)
               ELSE Panic
            /\ UNCHANGED <<taken, lpos>>
       ELSE /\ taken' = taken + 1
            /\ lpos' = Inc(lpos)
            /\ UNCHANGED <<pc, result, pos, nextRet, yielded>>
    /\ UNCHANGED <<input, start, callFrom, tokFrom, arm>>

\* Mutant of IdentLoop: an identifier runs up to the next whitespace.
IdentLoopUntilSpace ==
    /\ pc = "ident"
    /\ IF AtEnd
       THEN /\ Return(Ok(Eof), pos)
            /\ UNCHANGED <<taken, lpos>>
       ELSE IF IsWhitespace(Peek)
       THEN /\ LET span == Slice(input, start, lpos) IN
               IF span.ok
               THEN Return(Ok(Word(span.text)), lpos)
               ELSE Panic
            /\ UNCHANGED <<taken, lpos>>
       ELSE /\ taken' = taken + 1
            /\ lpos' = Inc(lpos)
            /\ UNCHANGED <<pc, result, pos, nextRet, yielded>>
    /\ UNCHANGED <<input, start, callFrom, tokFrom, arm>>

\* One turn of the identifier loop, and on leaving it the slice and the
\* keyword match.
IdentLoop ==
    /\ pc = "ident"
    /\ IF AtEnd
       THEN /\ Return(Ok(Eof), pos)
            /\ UNCHANGED <<taken, lpos>>
       ELSE IF Peek # "_" /\ ~IsAlphanumeric(Peek)
       THEN /\ LET span == Slice(input, start, lpos) IN
               IF span.ok
               THEN Return(Ok(Word(span.text)), lpos)
               ELSE Panic
            /\ UNCHANGED <<taken, lpos>>
       ELSE /\ taken' = taken + 1
            /\ lpos' = Inc(lpos)
            /\ UNCHANGED <<pc, result, pos, nextRet, yielded>>
    /\ UNCHANGED <<input, start, callFrom, tokFrom, arm>>

Next ==
    \/ Call
    \/ SkipWhitespace
    \/ FirstChar
    \/ CommentLoop
    \/ NumberLoop
    \/ IdentLoop

Spec == Init /\ [][Next]_vars

\* The source texts of the liveness checks: the short ones.
FairInit == Init /\ Len(input) <= MaxLiveLen

\* A call that has begun runs on: the code is sequential, and nothing but
\* its own loops keeps lex() from returning.
FairSpec == FairInit /\ [][Next]_vars /\ WF_vars(Next)

(* ------------------------------ claims --------------------------------- *)

\* The characters the current (or last) call has taken for its token.
TokenSpan == SubSeq(input, tokFrom + 1, taken)

\* A call of next() has returned, and no other is under way.
Returned == pc = "idle" /\ result # NoResult

\* The characters not yet given out by the iterator hold no newline.
NoNewlineLeft == \A i \in (taken + 1)..Len(input) : input[i] # "\n"

\* C1: when the input ends inside a `#` comment, the call of lex() that
\* entered the comment loop returns, and what it returns is LineComment.
C1_TrailingCommentReturns ==
    (pc = "comment" /\ NoNewlineLeft) ~> (pc = "idle" /\ result = Ok(LineComment))

\* C2: for every input the token sequence is finite: every call of lex()
\* ends and some call of next() returns None (a run that aborts ends too).
C2_SequenceEnds == <>(nextRet = "None" \/ pc = "panicked")

\* C3: lex() returns Eof only when nothing but whitespace was left between
\* the cursor and the end of the input when it was called.
C3_EofOnlyAtEnd ==
    (Returned /\ result = Ok(Eof))
        => \A i \in (callFrom + 1)..Len(input) :
               input[i] \in {" ", "\n", "\t", "\r", "NBSP", "EMSP"}

\* The input is a `#` comment, its newline, and the word var.
IsCommentThenVar ==
    /\ Len(input) >= 5
    /\ input[1] = "#"
    /\ SubSeq(input, Len(input) - 3, Len(input)) = <<"\n", "v", "a", "r">>
    /\ \A i \in 2..(Len(input) - 4) : input[i] # "\n"

\* C4: for a `#` comment ended by a newline and followed by the word var,
\* the token sequence is exactly LineComment, Keyword(Var).
C4_CommentThenVar ==
    (IsCommentThenVar /\ pc = "idle" /\ nextRet = "None")
        => yielded = <<LineComment, KeywordTok("Var")>>

\* C5: the spans consumed by the calls tile the input: when the sequence
\* has ended the cursor stands at the end of the source (counted, as the
\* code counts, in characters) and accounts for every character given out.
C5_SpansTileInput ==
    (pc = "idle" /\ nextRet = "None") => (pos = Len(input) /\ pos = taken)

\* C6: the stored cursor starts at 0, never decreases and always lies in
\* 0..len(source).
C6_CursorMonotoneInRange ==
    /\ pos = 0
    /\ [](pos \in 0..ByteLen(input))
    /\ [][pos' >= pos]_vars

\* Two calls have returned tokens and the cursor has moved twice.
C6_Witness == Returned /\ Len(yielded) >= 2 /\ pos >= 2 /\ pos <= ByteLen(input)

\* C7: a call in identifier mode returns a Keyword exactly when the span it
\* consumed is one of the eight keywords, and otherwise one Ident that
\* carries the whole span.
C7_KeywordExact ==
    (Returned /\ arm = "ident")
        => /\ result.ok
           /\ result.tok.kind \in {"Keyword", "Ident"}
           /\ result.tok.kind = "Keyword" <=> TokenSpan \in Keywords
           /\ result.tok.kind = "Ident" => result.tok.text = TokenSpan

\* The input holds nothing but whitespace (it may be empty).
OnlyWhitespace ==
    \A i \in 1..Len(input) : input[i] \in {" ", "\n", "\t", "\r", "NBSP", "EMSP"}

\* C8: on an input of whitespace only, lex() returns Eof and next() yields
\* no token.
C8_WhitespaceOnlyIsEmpty ==
    (OnlyWhitespace /\ Returned)
        => (result = Ok(Eof) /\ nextRet = "None" /\ yielded = << >>)

\* A call has returned on a whitespace-only input that holds a character
\* wider than one byte.
C8_Witness ==
    /\ OnlyWhitespace /\ Returned
    /\ \E i \in 1..Len(input) : input[i] = "NBSP"
    /\ taken = Len(input)

\* C9: next() returns None as soon as lex() returns Eof or an error, never
\* yields Eof, and once it has returned None it returns None ever after and
\* leaves the cursor where it is.
C9_ForwardOnly ==
    /\ [](\A i \in 1..Len(yielded) : yielded[i].kind # "Eof")
    /\ []((Returned /\ (~result.ok \/ result.tok.kind = "Eof")) => nextRet = "None")
    /\ [][nextRet = "None"
            => (nextRet' = "None" /\ pos' = pos /\ yielded' = yielded)]_vars

\* next() is called again after it has returned None behind some tokens.
C9_Witness == nextRet = "None" /\ pc = "skip" /\ Len(yielded) >= 1

\* C10: a call in numeric mode whose span is no valid decimal float does
\* not return (it aborts), and no call of lex() returns Err.
C10_BadNumberAborts ==
    /\ result.ok
    /\ (Returned /\ arm = "number") => ParseF64(TokenSpan).ok

\* "var1 = 1;"
Var1Input == <<"v", "a", "r", "1", " ", "=", " ", "1", ";">>

\* Ident("var1"), Op('='), Number(1.0), Semi
Var1Tokens ==
    <<Ident(<<"v", "a", "r", "1">>), Op("="),
      Number([cls |-> "finite", neg |-> FALSE, mant |-> 1, exp |-> 0]),
      Plain("Semi")>>

\* C11: on "var1 = 1;" the tokens come out as Ident("var1"), Op('='),
\* Number(1.0), Semi, in that order: what has been yielded is at every
\* moment a prefix of that list, and the whole list once next() returns None.
C11_Var1Tokens ==
    input = Var1Input
        => /\ Len(yielded) <= Len(Var1Tokens)
           /\ yielded = SubSeq(Var1Tokens, 1, Len(yielded))
           /\ (nextRet = "None" => yielded = Var1Tokens)

\* The sequence of "var1 = 1;" has ended.
C11_Witness == input = Var1Input /\ nextRet = "None" /\ pc = "idle"

\* "function add(a, b) { return a + b; }"
AddInput ==
    <<"f", "u", "n", "c", "t", "i", "o", "n", " ", "a", "d", "d", "(", "a",
      ",", " ", "b", ")", " ", "{", " ", "r", "e", "t", "u", "r", "n", " ",
      "a", " ", "+", " ", "b", ";", " ", "}">>

\* Keyword(Function), Ident("add"), OpenParen, Ident("a"), Comma,
\* Ident("b"), CloseParen, OpenBrace, Keyword(Return), Ident("a"), Op('+'),
\* Ident("b"), Semi, CloseBrace
AddTokens ==
    <<KeywordTok("Function"), Ident(<<"a", "d", "d">>), Plain("OpenParen"),
      Ident(<<"a">>), Plain("Comma"), Ident(<<"b">>), Plain("CloseParen"),
      Plain("OpenBrace"), KeywordTok("Return"), Ident(<<"a">>), Op("+"),
      Ident(<<"b">>), Plain("Semi"), Plain("CloseBrace")>>

\* C12: on "function add(a, b) { return a + b; }" the tokens come out in
\* source order, split by character class: what has been yielded is at
\* every moment a prefix of the fourteen tokens, and all of them once next()
\* returns None.
C12_AddTokens ==
    input = AddInput
        => /\ Len(yielded) <= Len(AddTokens)
           /\ yielded = SubSeq(AddTokens, 1, Len(yielded))
           /\ (nextRet = "None" => yielded = AddTokens)

\* The sequence of the function text has ended.
C12_Witness == input = AddInput /\ nextRet = "None" /\ pc = "idle"

\* The characters that are their own punctuation token, and its variant.
PunctChars == {";", ",", "(", ")", "{", "}", "[", "]"}

PunctKind(c) ==
    CASE c = ";" -> "Semi" [] c = "," -> "Comma"
      [] c = "(" -> "OpenParen" [] c = ")" -> "CloseParen"
      [] c = "{" -> "OpenBrace" [] c = "}" -> "CloseBrace"
      [] c = "[" -> "OpenBracket" [] c = "]" -> "CloseBracket"

\* A character of no other class: not whitespace, punctuation, `#`, `.`,
\* an ASCII digit, an ASCII letter or `_`.
IsOpChar(c) ==
    c \notin {" ", "\n", "\t", "\r", "NBSP", "EMSP"} \cup PunctChars
        \cup {"#", ".", "_"} \cup Digits \cup LowerLetters \cup UpperLetters

\* The call that has returned took a first character for a token.
TokenBegun == Returned /\ arm # "none"

\* C13: a call whose first character is an operator character returns
\* Op(that character), and one whose first character is punctuation returns
\* its punctuation token; either takes that one character and no more, and
\* the cursor stands one past the token's start.
C13_OneCharTokens ==
    TokenBegun =>
        LET c == input[tokFrom + 1] IN
        /\ IsOpChar(c) =>
              (result = Ok(Op(c)) /\ taken = tokFrom + 1 /\ pos = start + 1)
        /\ c \in PunctChars =>
              /\ result = Ok(Plain(PunctKind(c)))
              /\ taken = tokFrom + 1
              /\ pos = start + 1

\* The second of two equal adjacent operator characters has been returned
\* as a token of its own.
C13_Witness ==
    /\ TokenBegun
    /\ tokFrom >= 1
    /\ IsOpChar(input[tokFrom + 1])
    /\ input[tokFrom] = input[tokFrom + 1]
    /\ Len(yielded) >= 2
    /\ yielded[Len(yielded)] = yielded[Len(yielded) - 1]

\* The class of numeric mode: `.` and the ASCII hexadecimal digits.
InNumberClass(c) == c = "." \/ c \in Digits \cup HexLetters

\* C15: a call in numeric mode takes the longest run of `.` and hexadecimal
\* digits that follows the first character and leaves the next character
\* untaken, and the value of the Number it returns is the parse of the whole
\* span it took.
C15_NumberMaximalMunch ==
    (Returned /\ arm = "number")
        => /\ \A i \in (tokFrom + 2)..taken : InNumberClass(input[i])
           /\ taken < Len(input) => ~InNumberClass(input[taken + 1])
           /\ result.tok.kind = "Number"
                 => /\ ParseF64(TokenSpan).ok
                    /\ result.tok.num = ParseF64(TokenSpan).num

\* The current call has sliced the source: it is in the number or the
\* identifier arm and has left its loop by the break, to return a token or
\* to panic.
SliceMade ==
    /\ arm \in {"number", "ident"}
    /\ \/ pc = "panicked"
       \/ Returned /\ result.tok.kind # "Eof"

\* C16: the cursor is a byte offset: whenever the source is sliced, both
\* ends lie on character boundaries and the slice is exactly the characters
\* the call took for its token, which is the text an Ident carries.
C16_SliceIsTokenSpan ==
    SliceMade
        => /\ Slice(input, start, lpos).ok
           /\ Slice(input, start, lpos).text = TokenSpan
           /\ (Returned /\ result.tok.kind = "Ident")
                 => result.tok.text = TokenSpan

\* A call of lex() returns in this step.
LexReturns == pc # "idle" /\ pc' = "idle"

\* C17: a call that returns a token other than Eof moves the stored cursor
\* forward by the number of characters it took (the whitespace skipped and
\* the token), which is at least one; a call that returns Eof has taken
\* nothing but whitespace.
C17_CursorAdvance ==
    [][LexReturns =>
          IF result' = Ok(Eof)
          THEN \A i \in (callFrom + 1)..taken' :
                   input[i] \in {" ", "\n", "\t", "\r", "NBSP", "EMSP"}
          ELSE pos' > pos /\ pos' - pos = taken' - callFrom]_vars

\* C18: at every return of lex() the stored cursor equals the number of
\* characters taken from the character iterator since construction.
C18_CursorMatchesIterator == Returned => pos = taken

====
